---- MODULE Spec2Model ----
(***************************************************************************)
(* The tool-calling orchestration loop of travel-orchestrator.py and the   *)
(* stub domain agents of travel_domain_agents.py.                          *)
(*                                                                         *)
(* Conventions:                                                            *)
(*   - an ISO date string "YYYY-MM-DD" is the record [y, m, d] of its      *)
(*     three fields; a dt.date is its proleptic Gregorian ordinal;         *)
(*   - Optional[T] is a sequence of length 0 (None) or 1;                  *)
(*   - a float price is kept in tenths of the currency unit, so that       *)
(*     total * 1.1 stays an integer;                                       *)
(*   - the str json.dumps(v) is the record [json |-> v], a literal str in   *)
(*     a message content is [text |-> s];                                  *)
(*   - a local time "HH:MM" is the number HHMM, a local date-time          *)
(*     f"{date}T{HH:MM}" the record [date, time].                          *)
(***************************************************************************)
EXTENDS Integers, Sequences, FiniteSets, TLC

VARIABLES
    pc,           \* position of run: "awaiting" (loop head), "returned", "raised"
    step,         \* number of loop iterations started, i.e. model calls issued
    messages,     \* the conversation list of run
    accumulator,  \* TravelOrchestrator.accumulator
    msg,          \* the last model response: [content, tool_calls]
    outcome,      \* what run returned or raised (<<>> while running)
    writes,       \* accumulator keys assigned by the last tool turn, in order
    auto_book,    \* the auto_book argument of run
    agentCall     \* the last direct call of a stub agent: its input and result

vars == <<pc, step, messages, accumulator, msg, outcome, writes, auto_book, agentCall>>

-----------------------------------------------------------------------------
(* Bounds of the model *)

\* what the model may vary over one run, in all turns together: every tool
\* call it requests and every answer that is JSON of another shape counts
\* one; answers that are not JSON are limited by the loop alone
MaxVaried == 2
\* the date universe is DateBase .. DateBase + DateWindow days
DateWindow == 6
\* travelers and rooms range over -MaxCount .. MaxCount
MaxCount == 2

-----------------------------------------------------------------------------
(* datetime.date *)

None == <<>>
Some(x) == <<x>>

Min(a, b) == IF a <= b THEN a ELSE b
Max(a, b) == IF a >= b THEN a ELSE b

is_leap(y) == y % 4 = 0 /\ (y % 100 # 0 \/ y % 400 = 0)

DAYS_IN_MONTH == <<31, 28, 31, 30, 31, 30, 31, 31, 30, 31, 30, 31>>

days_in_month(y, m) == IF m = 2 /\ is_leap(y) THEN 29 ELSE DAYS_IN_MONTH[m]

RECURSIVE DAYS_BEFORE_MONTH(_)
DAYS_BEFORE_MONTH(m) == IF m = 1 THEN 0 ELSE DAYS_BEFORE_MONTH(m - 1) + DAYS_IN_MONTH[m - 1]

days_before_month(y, m) == DAYS_BEFORE_MONTH(m) + (IF m > 2 /\ is_leap(y) THEN 1 ELSE 0)

days_before_year(y) ==
    LET p == y - 1 IN p * 365 + (p \div 4) - (p \div 100) + (p \div 400)

\* dt.date.fromisoformat accepts exactly the well-formed calendar dates
valid_iso(s) ==
    /\ s.y \in 1..9999
    /\ s.m \in 1..12
    /\ s.d \in 1..days_in_month(s.y, s.m)

\* dt.date.fromisoformat(s), for a valid s: the date, as its ordinal
fromisoformat(s) == days_before_year(s.y) + days_before_month(s.y, s.m) + s.d

\* date.isoformat() of the date with ordinal n
isoformat(ordinal) ==
    LET n0   == ordinal - 1
        n400 == n0 \div 146097
        r400 == n0 % 146097
        n100 == r400 \div 36524
        r100 == r400 % 36524
        n4   == r100 \div 1461
        r4   == r100 % 1461
        n1   == r4 \div 365
        n    == r4 % 365
        year == n400 * 400 + 1 + n100 * 100 + n4 * 4 + n1
    IN  IF n1 = 4 \/ n100 = 4
        THEN [y |-> year - 1, m |-> 12, d |-> 31]
        ELSE LET leap  == n1 = 3 /\ (n4 # 24 \/ n100 = 3)
                 m0    == (n + 50) \div 32
                 pre0  == DAYS_BEFORE_MONTH(m0) + (IF m0 > 2 /\ leap THEN 1 ELSE 0)
                 month == IF pre0 > n THEN m0 - 1 ELSE m0
                 pre   == IF pre0 > n
                          THEN pre0 - (DAYS_IN_MONTH[month]
                                       + (IF month = 2 /\ leap THEN 1 ELSE 0))
                          ELSE pre0
             IN  [y |-> year, m |-> month, d |-> n - pre + 1]

-----------------------------------------------------------------------------
(* Python list helpers *)

\* [f(i) for i in range(n)] is written [i \in 1..n |-> f(i - 1)]; range(n) is
\* empty for n <= 0, as 1..n is.

\* s[:n]
SliceTo(s, n) ==
    LET k == IF n >= 0 THEN Min(n, Len(s)) ELSE Max(0, Len(s) + n)
    IN  SubSeq(s, 1, k)

\* s * n
RECURSIVE Repeat(_, _)
Repeat(s, n) == IF n <= 0 THEN <<>> ELSE s \o Repeat(s, n - 1)

-----------------------------------------------------------------------------
(* Domain agent stubs *)

\* a float amount, in tenths
Amount(x) == 10 * x

weather_agent_exclusive_end(city, start_date, end_date) ==
    LET start == fromisoformat(start_date)
        end   == fromisoformat(end_date)
        days  == end - start
        highs == [i \in 1..days |-> 26 + ((i - 1) % 3)]
        lows  == [i \in 1..days |-> 18 + ((i - 1) % 3)]
        conds == Repeat(<<"clear", "partly cloudy", "light rain">>, (days \div 3) + 1)
    IN  [city       |-> city,
         dates      |-> [i \in 1..days |-> isoformat(start + (i - 1))],
         highs_c    |-> SliceTo(highs, days),
         lows_c     |-> SliceTo(lows, days),
         conditions |-> SliceTo(conds, days)]

weather_agent(city, start_date, end_date) ==
    LET start == fromisoformat(start_date)
        end   == fromisoformat(end_date)
        days  == (end - start) + 1
        highs == [i \in 1..days |-> 26 + ((i - 1) % 3)]
        lows  == [i \in 1..days |-> 18 + ((i - 1) % 3)]
        conds == Repeat(<<"clear", "partly cloudy", "light rain">>, (days \div 3) + 1)
    IN  [city       |-> city,
         dates      |-> [i \in 1..days |-> isoformat(start + (i - 1))],
         highs_c    |-> SliceTo(highs, days),
         lows_c     |-> SliceTo(lows, days),
         conditions |-> SliceTo(conds, days)]

flights_agent(prefs) ==
    << [carrier           |-> "Example Air",
        flight_number     |-> "EA123",
        depart_time_local |-> [date |-> prefs.depart_date, time |-> 915],
        arrive_time_local |-> [date |-> prefs.depart_date, time |-> 1445],
        duration          |-> "5h 30m",
        cabin             |-> prefs.cabin,
        price_currency    |-> prefs.budget_currency,
        price_total       |-> Amount(480) * prefs.travelers],
       [carrier           |-> "SampleJet",
        flight_number     |-> "SJ456",
        depart_time_local |-> [date |-> prefs.depart_date, time |-> 1730],
        arrive_time_local |-> [date |-> prefs.depart_date, time |-> 2305],
        duration          |-> "5h 35m",
        cabin             |-> prefs.cabin,
        price_currency    |-> prefs.budget_currency,
        price_total       |-> Amount(520) * prefs.travelers] >>

Abs(x) == IF x < 0 THEN -x ELSE x

hotel_nights_signed(checkin, checkout) ==
    LET nights == fromisoformat(checkin) - fromisoformat(checkout)
    IN  IF nights # 0 THEN nights ELSE 1

\* nights = (checkin - checkout).days ; nights = abs(nights) or 1
hotel_nights(checkin, checkout) ==
    LET nights == fromisoformat(checkin) - fromisoformat(checkout)
    IN  IF Abs(nights) # 0 THEN Abs(nights) ELSE 1

hotels_agent(destination, checkin, checkout, rooms, max_price_per_night, currency) ==
    LET nights == hotel_nights(checkin, checkout)
        base   == Amount(140)
        total  == base * nights * rooms
    IN  << [name                |-> "Central Square Hotel",
            address             |-> <<"Downtown", destination>>,
            checkin             |-> checkin,
            checkout            |-> checkout,
            rating              |-> 45,
            price_currency      |-> currency,
            price_total         |-> total,
            cancellation_policy |-> Some("Free cancellation until 24h before check-in")],
           [name                |-> "Riverside Boutique",
            address             |-> <<"Riverside", destination>>,
            checkin             |-> checkin,
            checkout            |-> checkout,
            rating              |-> 42,
            price_currency      |-> currency,
            price_total         |-> (total * 11) \div 10,
            cancellation_policy |-> Some("Partial refund")] >>

events_agent(city, start_date, end_date, interests) ==
    << [title          |-> "Open-Air Food Market",
        start          |-> [date |-> start_date, time |-> 1800],
        end            |-> Some([date |-> start_date, time |-> 2100]),
        venue          |-> Some("Old Town Plaza"),
        category       |-> Some("food"),
        price_currency |-> Some("USD"),
        price_total    |-> Some(Amount(0)),
        url            |-> Some("https://example.com/events/market")],
       [title          |-> "Live Jazz Night",
        start          |-> [date |-> isoformat(fromisoformat(start_date) + 1), time |-> 2000],
        end            |-> None,
        venue          |-> Some("Blue Note Club"),
        category       |-> Some("music"),
        price_currency |-> Some("USD"),
        price_total    |-> Some(Amount(35)),
        url            |-> Some("https://example.com/events/jazz")] >>

book_agent(selected_flight, selected_hotel) ==
    [flight_booking_id |-> "BK-FLT-XYZ123",
     hotel_booking_id  |-> IF selected_hotel # None THEN Some("BK-HTL-ABC987") ELSE None,
     status            |-> "PENDING_CONFIRMATION"]

-----------------------------------------------------------------------------
(* Direct calls of the stub agents, on bounded inputs *)

DateBase == [y |-> 2024, m |-> 2, d |-> 26]

\* the ISO dates DateBase .. DateBase + DateWindow
Dates == {isoformat(fromisoformat(DateBase) + k) : k \in 0..DateWindow}

Counts == (0 - MaxCount)..MaxCount

Cabins == {"economy", "business"}

\* TravelerPrefs(**fields): the validator accepts exactly the valid ISO dates;
\* travelers and hotel_rooms are any int
TravelerPrefs(fields) ==
    IF valid_iso(fields.depart_date)
       /\ (fields.return_date = None \/ valid_iso(fields.return_date[1]))
    THEN Some(fields)
    ELSE None

PrefsOf(depart, travelers, cabin) ==
    [origin |-> "SFO", destination |-> "Vancouver", depart_date |-> depart,
     return_date |-> None, travelers |-> travelers, cabin |-> cabin,
     budget_currency |-> "USD"]

AgentIdle == [agent |-> "none"]

CallWeather ==
    \E s \in Dates, e \in Dates :
        /\ agentCall' = [agent |-> "weather", start_date |-> s, end_date |-> e,
                         res |-> weather_agent("Vancouver", s, e)]
        /\ UNCHANGED <<pc, step, messages, accumulator, msg, outcome, writes, auto_book>>

CallFlights ==
    \E d \in Dates, t \in Counts, c \in Cabins :
        /\ TravelerPrefs(PrefsOf(d, t, c)) # None
        /\ agentCall' = [agent |-> "flights", travelers |-> t,
                         res |-> flights_agent(TravelerPrefs(PrefsOf(d, t, c))[1])]
        /\ UNCHANGED <<pc, step, messages, accumulator, msg, outcome, writes, auto_book>>

CallHotels ==
    \E ci \in Dates, co \in Dates, r \in Counts :
        /\ agentCall' = [agent |-> "hotels", checkin |-> ci, checkout |-> co, rooms |-> r,
                         res |-> hotels_agent("Vancouver", ci, co, r, None, "USD")]
        /\ UNCHANGED <<pc, step, messages, accumulator, msg, outcome, writes, auto_book>>

CallEvents ==
    \E s \in Dates, e \in Dates :
        /\ agentCall' = [agent |-> "events", start_date |-> s, end_date |-> e,
                         res |-> events_agent("Vancouver", s, e, <<"food", "music">>)]
        /\ UNCHANGED <<pc, step, messages, accumulator, msg, outcome, writes, auto_book>>

-----------------------------------------------------------------------------
(* TravelOrchestrator *)

\* for _ in range(8)
MaxSteps == 8

Dumps(v) == [json |-> v]
Text(s)  == [text |-> s]
Loads(s) == s.json

ToolNames == {"call_weather_agent", "call_flights_agent", "call_hotels_agent",
              "call_events_agent", "finalize_booking"}

\* the accumulator key each tool's handler assigns
KeyOf(tool_name) ==
    CASE tool_name = "call_weather_agent" -> "weather"
      [] tool_name = "call_flights_agent" -> "flights"
      [] tool_name = "call_hotels_agent"  -> "hotels"
      [] tool_name = "call_events_agent"  -> "events"
      [] tool_name = "finalize_booking"   -> "booking"

\* TravelOrchestrator.__init__
InitAccumulator ==
    [weather |-> None, flights |-> <<>>, hotels |-> <<>>, events |-> <<>>, booking |-> None]

\* lst[i]: <<the element>>, or None where Python raises IndexError
PyIndex(lst, i) ==
    IF i >= 0 /\ i < Len(lst) THEN Some(lst[i + 1])
    ELSE IF i < 0 /\ 0 - i <= Len(lst) THEN Some(lst[Len(lst) + i + 1])
    ELSE None

\* what one task of the gather does: the accumulator after it, the key it
\* assigned, and either the string it returns or the exception it raises
Returned(acc, key, out) == [acc |-> acc, wrote |-> <<key>>, exc |-> None, out |-> Some(out)]
Raised(acc, kind)       == [acc |-> acc, wrote |-> <<>>, exc |-> Some(kind), out |-> None]

finalize_booking_any_hotel_index(acc, args) ==
    LET flights == acc.flights
        hotels  == acc.hotels
        fi      == args.flight_index
        hi      == IF args.hotel_index # None THEN args.hotel_index[1] ELSE 0
        selected_flight == PyIndex(flights, fi)
        selected_hotel  == IF hotels # <<>> THEN PyIndex(hotels, hi) ELSE None
    IN  IF selected_flight = None THEN Raised(acc, "IndexError")
        ELSE LET res == book_agent(selected_flight[1], selected_hotel)
             IN  Returned([acc EXCEPT !.booking = Some(res)], "booking", Dumps(res))

finalize_booking_if_auto_book(acc, args) ==
    LET flights == acc.flights
        hotels  == acc.hotels
        fi      == args.flight_index
        hi      == IF args.hotel_index # None THEN args.hotel_index[1] ELSE 0
        selected_flight == PyIndex(flights, fi)
        selected_hotel  == IF hotels # <<>> THEN PyIndex(hotels, hi) ELSE None
    IN  IF selected_flight = None THEN Raised(acc, "IndexError")
        ELSE IF hotels # <<>> /\ selected_hotel = None THEN Raised(acc, "IndexError")
        ELSE LET res == book_agent(selected_flight[1], selected_hotel)
             IN  IF auto_book
                 THEN Returned([acc EXCEPT !.booking = Some(res)], "booking", Dumps(res))
                 ELSE Returned(acc, "booking", Dumps(res))

finalize_booking(acc, args) ==
    LET flights == acc.flights
        hotels  == acc.hotels
        fi      == args.flight_index
        hi      == IF args.hotel_index # None THEN args.hotel_index[1] ELSE 0
        selected_flight == PyIndex(flights, fi)
        selected_hotel  == IF hotels # <<>> THEN PyIndex(hotels, hi) ELSE None
    IN  IF selected_flight = None THEN Raised(acc, "IndexError")
        ELSE IF hotels # <<>> /\ selected_hotel = None THEN Raised(acc, "IndexError")
        ELSE LET res == book_agent(selected_flight[1], selected_hotel)
             IN  Returned([acc EXCEPT !.booking = Some(res)], "booking", Dumps(res))

call_weather_agent(acc, args) ==
    LET res == weather_agent(args.city, args.start_date, args.end_date)
    IN  Returned([acc EXCEPT !.weather = Some(res)], "weather", Dumps(res))

call_flights_agent(acc, args) ==
    LET prefs == TravelerPrefs(args.prefs)
    IN  IF prefs = None THEN Raised(acc, "ValidationError")
        ELSE LET res == flights_agent(prefs[1])
             IN  Returned([acc EXCEPT !.flights = res], "flights", Dumps(res))

call_hotels_agent(acc, args) ==
    LET res == hotels_agent(args.destination, args.checkin, args.checkout,
                            args.rooms, args.max_price_per_night, args.currency)
    IN  Returned([acc EXCEPT !.hotels = res], "hotels", Dumps(res))

call_events_agent_into_hotels(acc, args) ==
    LET res == events_agent(args.city, args.start_date, args.end_date, args.interests)
    IN  Returned([acc EXCEPT !.hotels = res], "events", Dumps(res))

call_events_agent(acc, args) ==
    LET res == events_agent(args.city, args.start_date, args.end_date, args.interests)
    IN  Returned([acc EXCEPT !.events = res], "events", Dumps(res))

unknown_tool_runtime_error(acc, tool_name) == Raised(acc, "RuntimeError")

\* raise ValueError(f"Unknown tool: {tool_name}")
unknown_tool(acc, tool_name) == Raised(acc, "ValueError")

handle_tool(acc, tool_name, args) ==
    CASE tool_name = "call_weather_agent" -> call_weather_agent(acc, args)
      [] tool_name = "call_flights_agent" -> call_flights_agent(acc, args)
      [] tool_name = "call_hotels_agent"  -> call_hotels_agent(acc, args)
      [] tool_name = "call_events_agent"  -> call_events_agent(acc, args)
      [] tool_name = "finalize_booking"   -> finalize_booking(acc, args)
      [] OTHER -> unknown_tool(acc, tool_name)

\* asyncio.gather over pending: the stubs never suspend, so the tasks run to
\* completion one after another in list order; a task that raises does not
\* stop the later ones, and the first exception raised is the one awaited.
RECURSIVE run_all(_, _)
run_all(acc, pending) ==
    IF pending = <<>>
    THEN [acc |-> acc, outs |-> <<>>, exc |-> None, wrote |-> <<>>]
    ELSE LET one  == handle_tool(acc, pending[1][1], pending[1][2])
             rest == run_all(one.acc, Tail(pending))
         IN  [acc   |-> rest.acc,
              outs  |-> (IF one.exc = None THEN << <<pending[1][1], one.out[1]>> >> ELSE <<>>)
                        \o rest.outs,
              exc   |-> IF one.exc # None THEN one.exc ELSE rest.exc,
              wrote |-> one.wrote \o rest.wrote]

\* for n, o in outs: results[n] = o  -- then results[name]
RECURSIVE results_of(_, _)
results_of(outs, name) ==
    IF outs[Len(outs)][1] = name THEN outs[Len(outs)][2]
    ELSE results_of(SubSeq(outs, 1, Len(outs) - 1), name)

\* pending.append((name, args)) for tc in msg.tool_calls
pending_of(tool_calls) ==
    [i \in 1..Len(tool_calls) |->
        <<tool_calls[i].function.name, Loads(tool_calls[i].function.arguments)>>]

\* the messages appended for msg.tool_calls once every task has returned
tool_messages(tool_calls, outs) ==
    [i \in 1..Len(tool_calls) |->
        [role         |-> "tool",
         tool_call_id |-> tool_calls[i].id,
         name         |-> tool_calls[i].function.name,
         content      |-> results_of(outs, tool_calls[i].function.name)]]

RetryPrompt ==
    [role |-> "user",
     content |-> Text("Please output valid JSON strictly matching the Itinerary schema.")]

\* json.loads(msg.content) then Itinerary(**data): None where either raises
parse_itinerary(content) ==
    IF content = Some("itinerary json") THEN Some([itinerary |-> content[1]]) ELSE None

\* the end of one loop iteration that did not return: the next iteration, or
\* the raise after the loop
StillRunning == [kind |-> "none"]
StepCap      == [kind |-> "RuntimeError",
                 text |-> "Failed to produce itinerary in allotted steps"]

after_iteration_late(k) ==
    IF k <= MaxSteps THEN [pc |-> "awaiting", outcome |-> StillRunning]
    ELSE [pc |-> "raised", outcome |-> StepCap]

after_iteration(k) ==
    IF k < MaxSteps THEN [pc |-> "awaiting", outcome |-> StillRunning]
    ELSE [pc |-> "raised", outcome |-> StepCap]

-----------------------------------------------------------------------------
(* The model's responses *)

TripStart == [y |-> 2025, m |-> 10, d |-> 10]
TripEnd   == [y |-> 2025, m |-> 10, d |-> 14]

ExamplePrefs ==
    [origin |-> "SFO", destination |-> "Vancouver", depart_date |-> TripStart,
     return_date |-> Some(TripEnd), travelers |-> 2, cabin |-> "economy",
     budget_currency |-> "USD"]

Function(name, args) == [name |-> name, arguments |-> Dumps(args)]

\* the function parts of the tool calls the model may request: every declared
\* tool with the arguments its agent takes (weather with two date ranges,
\* finalize_booking with indices inside and outside the stored lists) and a
\* name that is no tool. The arguments are always well-formed JSON holding
\* every parameter of the agent.
Requests ==
    { Function("call_weather_agent",
               [city |-> "Vancouver", start_date |-> TripStart, end_date |-> TripEnd]),
      Function("call_weather_agent",
               [city |-> "Vancouver", start_date |-> TripEnd, end_date |-> TripEnd]),
      Function("call_flights_agent", [prefs |-> ExamplePrefs]),
      Function("call_hotels_agent",
               [destination |-> "Vancouver", checkin |-> TripStart, checkout |-> TripEnd,
                rooms |-> 1, max_price_per_night |-> Some(250), currency |-> "USD"]),
      Function("call_events_agent",
               [city |-> "Vancouver", start_date |-> TripStart, end_date |-> TripEnd,
                interests |-> <<"food", "music">>]),
      Function("finalize_booking", [flight_index |-> 0, hotel_index |-> None]),
      Function("finalize_booking", [flight_index |-> 2, hotel_index |-> None]),
      Function("finalize_booking", [flight_index |-> 1, hotel_index |-> Some(2)]),
      Function("call_restaurant_agent", [city |-> "Vancouver"]) }

\* the contents of a response that requests no tool call
Contents == {"itinerary json", "not json", "json of another shape"}

\* msg.tool_calls of the k-th response: the calls carry distinct ids
ToolCalls(k, fs) == [i \in 1..Len(fs) |-> [id |-> <<k, i>>, function |-> fs[i]]]

IsVaried(m) ==
    \/ m.role = "tool"
    \/ m.role = "assistant" /\ m.content = Some("json of another shape")

\* how much of MaxVaried this run has used
Varied == Len(SelectSeq(messages, IsVaried))

RequestSeqs(n) == UNION {[1..k -> Requests] : k \in 1..n}

-----------------------------------------------------------------------------
(* run *)

SystemMessage == [role |-> "system", content |-> Text("You are a senior travel-planning orchestrator.")]
UserMessage ==
    [role |-> "user",
     content |-> Dumps([goal |-> "Plan a 4-day fall getaway", defaults |-> ExamplePrefs])]

\* the start of a run: the conversation holds the system and user messages,
\* whatever the accumulator and auto_book are
StartOfRun ==
    /\ pc = "awaiting"
    /\ step = 0
    /\ messages = <<SystemMessage, UserMessage>>
    /\ msg = [content |-> None, tool_calls |-> <<>>]
    /\ outcome = StillRunning
    /\ writes = <<>>
    /\ agentCall = AgentIdle

\* run on a fresh orchestrator, with either value of auto_book
Init ==
    /\ pc = "awaiting"
    /\ step = 0
    /\ messages = <<SystemMessage, UserMessage>>
    /\ accumulator = InitAccumulator
    /\ auto_book \in BOOLEAN
    /\ msg = [content |-> None, tool_calls |-> <<>>]
    /\ outcome = StillRunning
    /\ writes = <<>>
    /\ agentCall = AgentIdle

\* an iteration whose response requests no tool call and parses: return Itinerary(**data)
FinalAnswer ==
    \E c \in Contents :
        /\ pc = "awaiting"
        /\ parse_itinerary(Some(c)) # None
        /\ step' = step + 1
        /\ msg' = [content |-> Some(c), tool_calls |-> <<>>]
        /\ pc' = "returned"
        /\ outcome' = [kind |-> "Itinerary", value |-> parse_itinerary(Some(c))[1]]
        /\ writes' = <<>>
        /\ UNCHANGED <<messages, accumulator, auto_book, agentCall>>

MalformedAnswer_prompt_once ==
    \E c \in Contents :
        /\ pc = "awaiting"
        /\ parse_itinerary(Some(c)) = None
        /\ c = "not json" \/ Varied < MaxVaried
        /\ step' = step + 1
        /\ msg' = [content |-> Some(c), tool_calls |-> <<>>]
        /\ messages' = messages \o <<[role |-> "assistant", content |-> Some(c)]>>
                        \o (IF \E i \in 1..Len(messages) :
                                   messages[i].role = "user"
                                   /\ messages[i].content = RetryPrompt.content
                            THEN <<>> ELSE <<RetryPrompt>>)
        /\ pc' = after_iteration(step').pc
        /\ outcome' = after_iteration(step').outcome
        /\ writes' = <<>>
        /\ UNCHANGED <<accumulator, auto_book, agentCall>>

MalformedAnswer_no_echo ==
    \E c \in Contents :
        /\ pc = "awaiting"
        /\ parse_itinerary(Some(c)) = None
        /\ c = "not json" \/ Varied < MaxVaried
        /\ step' = step + 1
        /\ msg' = [content |-> Some(c), tool_calls |-> <<>>]
        /\ messages' = Append(messages, RetryPrompt)
        /\ pc' = after_iteration(step').pc
        /\ outcome' = after_iteration(step').outcome
        /\ writes' = <<>>
        /\ UNCHANGED <<accumulator, auto_book, agentCall>>

\* an iteration whose response requests no tool call and does not parse
MalformedAnswer ==
    \E c \in Contents :
        /\ pc = "awaiting"
        /\ parse_itinerary(Some(c)) = None
        /\ c = "not json" \/ Varied < MaxVaried
        /\ step' = step + 1
        /\ msg' = [content |-> Some(c), tool_calls |-> <<>>]
        /\ messages' = messages \o <<[role |-> "assistant", content |-> Some(c)], RetryPrompt>>
        /\ pc' = after_iteration(step').pc
        /\ outcome' = after_iteration(step').outcome
        /\ writes' = <<>>
        /\ UNCHANGED <<accumulator, auto_book, agentCall>>

\* an iteration whose response requests tool calls: every task of the gather
\* runs; if one raised, run raises its exception, otherwise one tool message
\* per call is appended (the assistant's own message is not) and the loop goes on
ToolTurn ==
    \E fs \in RequestSeqs(MaxVaried - Varied) :
        LET tool_calls == ToolCalls(step + 1, fs)
            done       == run_all(accumulator, pending_of(tool_calls))
        IN  /\ pc = "awaiting"
            /\ step' = step + 1
            /\ msg' = [content |-> None, tool_calls |-> tool_calls]
            /\ accumulator' = done.acc
            /\ writes' = done.wrote
            /\ IF done.exc # None
               THEN /\ pc' = "raised"
                    /\ outcome' = [kind |-> done.exc[1]]
                    /\ UNCHANGED messages
               ELSE /\ messages' = messages \o tool_messages(tool_calls, done.outs)
                    /\ pc' = after_iteration(step').pc
                    /\ outcome' = after_iteration(step').outcome
            /\ UNCHANGED <<auto_book, agentCall>>

Next == FinalAnswer \/ MalformedAnswer \/ ToolTurn

Spec == Init /\ [][Next]_vars

NextAgents == CallWeather \/ CallFlights \/ CallHotels \/ CallEvents

SpecAgents == Init /\ [][NextAgents]_vars

\* the tool calls of the earlier runs an orchestrator may have served before
\* this one: none (a fresh orchestrator), a flight search, or a flight and a
\* hotel search
EarlierCalls ==
    { <<>>,
      << Function("call_flights_agent", [prefs |-> ExamplePrefs]) >>,
      << Function("call_flights_agent", [prefs |-> ExamplePrefs]),
         Function("call_hotels_agent",
                  [destination |-> "Vancouver", checkin |-> TripStart, checkout |-> TripEnd,
                   rooms |-> 1, max_price_per_night |-> Some(250), currency |-> "USD"]) >> }

\* self.accumulator outlives run: what earlier runs left in it
EarlierAccumulators ==
    {run_all(InitAccumulator, pending_of(ToolCalls(0, fs))).acc : fs \in EarlierCalls}

\* run on an orchestrator that may have served earlier runs, auto_book left
\* at its default
InitReused ==
    /\ StartOfRun
    /\ accumulator \in EarlierAccumulators
    /\ auto_book = FALSE

SpecReused == InitReused /\ [][Next]_vars

-----------------------------------------------------------------------------
(* Properties of run *)

\* the last response requested no tool call and did not parse
LastMalformed(m) == m.tool_calls = <<>> /\ m.content # None /\ parse_itinerary(m.content) = None

\* the last response requested tool calls
LastTools(m) == m.tool_calls # <<>>

\* some task of the last tool turn raised: a task that returns assigns one key
ToolFailed == Len(writes) < Len(msg.tool_calls)

IsRetryPrompt(m) == m.role = "user" /\ m.content = RetryPrompt.content
RetryCount(ms) == Len(SelectSeq(ms, IsRetryPrompt))
IsToolMsg(m) == m.role = "tool"
ToolCount(ms) == Len(SelectSeq(ms, IsToolMsg))

\* C1: run issues at most 8 model calls and then ends; it returns only the
\* Itinerary parsed from a response with no tool calls, and when every tool
\* call returns and no such response parses within the 8 calls it raises
\* RuntimeError('Failed to produce itinerary in allotted steps'); tool-call
\* turns and malformed-answer turns count against the same 8.
C1_EightCallsThenEnds ==
    /\ step \in 0..8
    /\ step = RetryCount(messages)
              + (IF pc = "returned" THEN 1 ELSE 0)
              + Cardinality({messages[i].tool_call_id[1] :
                               i \in {j \in 1..Len(messages) : messages[j].role = "tool"}})
              + (IF pc = "raised" /\ ToolFailed THEN 1 ELSE 0)
    /\ pc = "awaiting" => step < 8 /\ outcome = StillRunning
    /\ step = 8 => pc \in {"returned", "raised"}
    /\ pc = "returned" =>
          /\ msg.tool_calls = <<>>
          /\ msg.content = Some("itinerary json")
          /\ outcome = [kind |-> "Itinerary", value |-> [itinerary |-> "itinerary json"]]
    /\ pc = "raised" /\ ~ToolFailed =>
          /\ step = 8
          /\ outcome = [kind |-> "RuntimeError",
                        text |-> "Failed to produce itinerary in allotted steps"]
    /\ pc = "raised" /\ ToolFailed => outcome.kind \notin {"none", "Itinerary", "RuntimeError"}

\* a run that used all 8 calls on tool turns and malformed answers and then raised
C1_Witness ==
    /\ pc = "raised" /\ step = 8 /\ outcome = StepCap
    /\ ToolCount(messages) > 0
    /\ RetryCount(messages) > 0

\* C2 as claimed: a response with no tool calls that fails to parse never ends
\* run; it appends the assistant's content and one retry prompt, leaves the
\* accumulator alone and goes on to the next model call.
C2_MalformedNeverEnds ==
    [][ (step' = step + 1 /\ LastMalformed(msg')) =>
          /\ messages' = messages \o <<[role |-> "assistant", content |-> msg'.content],
                                        RetryPrompt>>
          /\ accumulator' = accumulator
          /\ pc' = "awaiting" ]_vars

\* C2, amended: the same, except that after the 8th model call there is no
\* next call: the two messages are appended and run raises the step-cap error.
C2_MalformedContinuesWithinBudget ==
    [][ (step' = step + 1 /\ LastMalformed(msg')) =>
          /\ Len(messages') = Len(messages) + 2
          /\ messages' = messages \o <<[role |-> "assistant", content |-> msg'.content],
                                        [role |-> "user",
                                         content |-> [text |-> "Please output valid JSON strictly matching the Itinerary schema."]]>>
          /\ accumulator' = accumulator
          /\ IF step' < 8
             THEN pc' = "awaiting" /\ outcome' = StillRunning
             ELSE pc' = "raised" /\ outcome' = StepCap ]_vars

\* a malformed answer of either kind was just handled, after a tool turn had
\* filled the accumulator, and the loop goes on
C2_Witness ==
    /\ LastMalformed(msg) /\ msg.content = Some("json of another shape")
    /\ pc = "awaiting"
    /\ accumulator.flights # <<>>
    /\ IsRetryPrompt(messages[Len(messages)])

\* C3 as claimed: the retry prompt is appended at most once in a run.
C3_AtMostOneRetry == RetryCount(messages) <= 1

\* C3, amended: the retry prompt is appended once for every malformed answer,
\* and only then: up to 8 times in a run.
C3_OneRetryPerMalformedAnswer ==
    /\ [](RetryCount(messages) <= 8)
    /\ [][ step' = step + 1 =>
             RetryCount(messages') =
                 RetryCount(messages) + (IF LastMalformed(msg') THEN 1 ELSE 0) ]_vars

\* a run all of whose 8 answers were malformed
C3_Witness == RetryCount(messages) = 8 /\ pc = "raised"

\* C4: after a tool turn all of whose calls returned, one tool message per
\* requested call is appended, in request order, with that call's id and
\* name, and with the result of executing that very call.
C4_EachCallItsOwnResult ==
    [][ (step' = step + 1 /\ LastTools(msg') /\ Len(writes') = Len(msg'.tool_calls)) =>
          LET tcs  == msg'.tool_calls
              done == run_all(accumulator, pending_of(tcs))
          IN  messages' = messages \o
                  [i \in 1..Len(tcs) |->
                      [role         |-> "tool",
                       tool_call_id |-> tcs[i].id,
                       name         |-> tcs[i].function.name,
                       content      |-> done.outs[i][2]]] ]_vars

UnknownRequested(m) ==
    \E i \in 1..Len(m.tool_calls) : m.tool_calls[i].function.name \notin ToolNames

FirstUnknown(m) ==
    CHOOSE i \in 1..Len(m.tool_calls) :
        /\ m.tool_calls[i].function.name \notin ToolNames
        /\ \A j \in 1..(i - 1) : m.tool_calls[j].function.name \in ToolNames

\* no tool message answers a call of the last response (ids are <<step, i>>)
NoToolMessageOfTurn ==
    \A j \in 1..Len(messages) :
        messages[j].role = "tool" => messages[j].tool_call_id[1] # step

\* C5 as claimed: a request for an unknown tool name ends run with the same
\* kind of error as step-cap exhaustion, with no further model call and no
\* tool message for that turn.
C5_UnknownToolRuntimeError ==
    UnknownRequested(msg) =>
        /\ pc = "raised"
        /\ outcome.kind = StepCap.kind
        /\ NoToolMessageOfTurn

\* C5, amended: a request for an unknown tool name ends run by raising
\* ValueError, not the RuntimeError of the step cap (or the exception of a call
\* listed earlier in the same turn, when one raised first), with no further
\* model call and no tool message for that turn.
C5_UnknownToolValueError ==
    UnknownRequested(msg) =>
        /\ pc = "raised"
        /\ ~ ENABLED Next
        /\ outcome.kind # "RuntimeError"
        /\ \/ outcome.kind = "ValueError"
           \/ \E j \in 1..(FirstUnknown(msg) - 1) :
                 /\ msg.tool_calls[j].function.name = "finalize_booking"
                 /\ outcome.kind = "IndexError"
        /\ (\A j \in 1..(FirstUnknown(msg) - 1) :
                msg.tool_calls[j].function.name # "finalize_booking")
              => outcome.kind = "ValueError"
        /\ NoToolMessageOfTurn

\* an unknown tool was requested after an earlier tool turn had appended its
\* messages
C5_Witness ==
    /\ UnknownRequested(msg)
    /\ Len(msg.tool_calls) = 1
    /\ outcome.kind = "ValueError"
    /\ ToolCount(messages) > 0
    /\ step > 1

\* the outcome of one tool turn that requests fs from accumulator acc
TurnOutcome(acc, fs) ==
    LET tcs  == ToolCalls(0, fs)
        done == run_all(acc, pending_of(tcs))
    IN  [exc      |-> done.exc,
         acc      |-> done.acc,
         contents |-> IF done.exc = None
                      THEN [i \in 1..Len(tcs) |-> tool_messages(tcs, done.outs)[i].content]
                      ELSE <<>>]

\* fs with the calls at positions i and i + 1 exchanged
Swapped(fs, i) == [fs EXCEPT ![i] = fs[i + 1], ![i + 1] = fs[i]]

\* C6: the calls of one turn are independent and unordered: had two
\* neighbouring calls of different tools run in the other order, the turn
\* would have ended the same way (returned, or raised the same error), with
\* the same accumulator and the same content appended for each call.
C6_OrderIndependent ==
    [][ (step' = step + 1 /\ LastTools(msg')) =>
          LET fs == [i \in 1..Len(msg'.tool_calls) |-> msg'.tool_calls[i].function]
          IN  \A i \in 1..(Len(fs) - 1) :
                fs[i].name # fs[i + 1].name =>
                    LET other == TurnOutcome(accumulator, Swapped(fs, i))
                        n     == Len(messages) IN
                    /\ ToolFailed' <=> other.exc # None
                    /\ ToolFailed' => other.exc = Some(outcome'.kind)
                    /\ accumulator' = other.acc
                    /\ ~ToolFailed' =>
                          /\ messages'[n + i].content = other.contents[i + 1]
                          /\ messages'[n + i + 1].content = other.contents[i]
                          /\ \A j \in (1..Len(fs)) \ {i, i + 1} :
                                messages'[n + j].content = other.contents[j] ]_vars

Keys == {"weather", "flights", "hotels", "events", "booking"}

Count(seq, k) == Cardinality({i \in 1..Len(seq) : seq[i] = k})

\* the calls of response m whose tool assigns key k
Requested(m, k) ==
    {i \in 1..Len(m.tool_calls) :
        /\ m.tool_calls[i].function.name \in ToolNames
        /\ KeyOf(m.tool_calls[i].function.name) = k}

\* C7 as claimed: in one turn each accumulator key is assigned at most once,
\* and only when its tool was requested.
C7_EachKeyAtMostOnce ==
    \A k \in Keys :
        /\ Count(writes, k) <= 1
        /\ Count(writes, k) > 0 => Requested(msg, k) # {}

\* C7, amended: in one turn each accumulator key is assigned once for every
\* requested call of its own tool that returns (more than once when the tool
\* is requested more than once), and a key that no call assigned keeps its
\* value: a turn never writes a key whose tool was not requested.
C7_EachKeyOncePerCall ==
    [][ step' = step + 1 =>
          \A k \in Keys :
              /\ Count(writes', k) <= Cardinality(Requested(msg', k))
              /\ Len(writes') = Len(msg'.tool_calls) =>
                    Count(writes', k) = Cardinality(Requested(msg', k))
              /\ Count(writes', k) > 0 => accumulator'[k] # InitAccumulator[k]
              /\ Count(writes', k) = 0 => accumulator'[k] = accumulator[k] ]_vars

\* a turn that requested the same tool twice and assigned its key twice
C7_Witness ==
    /\ Len(msg.tool_calls) = 2
    /\ Count(writes, "weather") = 2
    /\ accumulator.weather # None

-----------------------------------------------------------------------------
(* Properties of the stub agents *)

\* s1 <= s2 as ISO dates (the order of the strings "YYYY-MM-DD")
IsoLeq(s1, s2) ==
    \/ s1.y < s2.y
    \/ s1.y = s2.y /\ s1.m < s2.m
    \/ s1.y = s2.y /\ s1.m = s2.m /\ s1.d <= s2.d

\* s2 is the calendar day after s1
IsNextDay(s1, s2) ==
    IF s1.d < days_in_month(s1.y, s1.m)
    THEN s2 = [y |-> s1.y, m |-> s1.m, d |-> s1.d + 1]
    ELSE IF s1.m < 12
    THEN s2 = [y |-> s1.y, m |-> s1.m + 1, d |-> 1]
    ELSE s2 = [y |-> s1.y + 1, m |-> 1, d |-> 1]

\* C8: for valid dates with start_date <= end_date, weather_agent returns four
\* lists of length (end_date - start_date) + 1; dates runs day by day from
\* start_date to end_date; each high is 26 + i mod 3, each low 18 + i mod 3,
\* so every high exceeds its low.
C8_WeatherRangeConsistent ==
    (agentCall.agent = "weather" /\ IsoLeq(agentCall.start_date, agentCall.end_date)) =>
        LET r == agentCall.res
            n == Len(r.dates)
        IN  /\ n >= 1
            /\ n = (fromisoformat(agentCall.end_date) - fromisoformat(agentCall.start_date)) + 1
            /\ Len(r.highs_c) = n /\ Len(r.lows_c) = n /\ Len(r.conditions) = n
            /\ r.dates[1] = agentCall.start_date
            /\ r.dates[n] = agentCall.end_date
            /\ \A i \in 1..n : valid_iso(r.dates[i])
            /\ \A i \in 1..(n - 1) : IsNextDay(r.dates[i], r.dates[i + 1])
            /\ \A i \in 1..n :
                  /\ r.highs_c[i] = 26 + ((i - 1) % 3)
                  /\ r.lows_c[i] = 18 + ((i - 1) % 3)
                  /\ r.highs_c[i] > r.lows_c[i]
                  /\ r.conditions[i] = <<"clear", "partly cloudy", "light rain">>[((i - 1) % 3) + 1]

\* a range that runs over the leap day into the next month
C8_Witness ==
    /\ agentCall.agent = "weather"
    /\ agentCall.start_date = [y |-> 2024, m |-> 2, d |-> 27]
    /\ agentCall.end_date = [y |-> 2024, m |-> 3, d |-> 2]
    /\ Len(agentCall.res.dates) = 5

\* C9: for start_date <= end_date, the single-day range included, every event
\* returned by events_agent starts on a day of [start_date, end_date], and an
\* event's end, when present, is not before its start.
C9_EventsInsideRange ==
    (agentCall.agent = "events" /\ IsoLeq(agentCall.start_date, agentCall.end_date)) =>
        \A i \in 1..Len(agentCall.res) :
            LET ev == agentCall.res[i]
            IN  /\ IsoLeq(agentCall.start_date, ev.start.date)
                /\ IsoLeq(ev.start.date, agentCall.end_date)
                /\ ev.end # None =>
                      \/ ev.end[1].date # ev.start.date /\ IsoLeq(ev.start.date, ev.end[1].date)
                      \/ ev.end[1].date = ev.start.date /\ ev.start.time <= ev.end[1].time

AllPrices ==
    {agentCall.res[i].price_total : i \in 1..Len(agentCall.res)}

\* C10 as claimed: every price_total of flights_agent and hotels_agent is
\* non-negative, for any integer travelers and rooms and any pair of dates.
C10_PricesNonNegative ==
    agentCall.agent \in {"flights", "hotels"} => \A p \in AllPrices : p >= 0

\* C10, amended: flight totals are 480 and 520 times travelers; hotel totals
\* are 140 * nights * rooms and 1.1 times that, with
\* nights = max(1, |checkout - checkin|); so every price_total is
\* non-negative exactly when travelers (or rooms) is non-negative, and
\* negative for the negative counts the schemas accept. Amounts are in tenths.
C10_PricesFollowCounts ==
    /\ agentCall.agent = "flights" =>
          /\ Len(agentCall.res) = 2
          /\ agentCall.res[1].price_total = 4800 * agentCall.travelers
          /\ agentCall.res[2].price_total = 5200 * agentCall.travelers
          /\ (agentCall.travelers >= 0) <=> (\A p \in AllPrices : p >= 0)
    /\ agentCall.agent = "hotels" =>
          LET d      == fromisoformat(agentCall.checkout) - fromisoformat(agentCall.checkin)
              nights == Max(1, IF d < 0 THEN 0 - d ELSE d)
          IN  /\ Len(agentCall.res) = 2
              /\ agentCall.res[1].price_total = 1400 * nights * agentCall.rooms
              /\ agentCall.res[2].price_total = 1540 * nights * agentCall.rooms
              /\ (agentCall.rooms >= 0) <=> (\A p \in AllPrices : p >= 0)

\* a hotel search for two rooms whose checkout precedes its checkin
C10_Witness ==
    /\ agentCall.agent = "hotels"
    /\ agentCall.rooms = 2
    /\ fromisoformat(agentCall.checkout) < fromisoformat(agentCall.checkin)
    /\ agentCall.res[1].price_total > 0

-----------------------------------------------------------------------------
(* Properties of finalize_booking *)

\* the finalize_booking calls of response m
Finalizes(m) ==
    {i \in 1..Len(m.tool_calls) : m.tool_calls[i].function.name = "finalize_booking"}

\* the accumulator as the i-th task of the turn finds it
AccBefore(acc, m, i) == run_all(acc, SubSeq(pending_of(m.tool_calls), 1, i - 1)).acc

\* the i-th call of m is a finalize_booking that finds no flight at
\* flight_index, or hotels stored and none at hotel_index
NothingToBook(acc, m, i) ==
    LET args == Loads(m.tool_calls[i].function.arguments)
        fi   == args.flight_index
        hi   == IF args.hotel_index # None THEN args.hotel_index[1] ELSE 0
        at   == AccBefore(acc, m, i)
    IN  \/ at.flights = <<>>
        \/ fi >= Len(at.flights)
        \/ at.hotels # <<>> /\ hi >= Len(at.hotels)

\* the i-th call of m gives indices that are not negative
PlainIndices(m, i) ==
    LET args == Loads(m.tool_calls[i].function.arguments)
    IN  /\ args.flight_index >= 0
        /\ args.hotel_index # None => args.hotel_index[1] >= 0

-----------------------------------------------------------------------------
(* Properties of auto_book *)

\* what one iteration makes of the accumulator acc, the conversation ms and
\* the k iterations before it, given the response m - and nothing else
IterationResult(acc, ms, k, m) ==
    IF m.tool_calls = <<>>
    THEN IF m.content = Some("itinerary json")
         THEN [pc |-> "returned", messages |-> ms, accumulator |-> acc,
               outcome |-> [kind |-> "Itinerary", value |-> [itinerary |-> m.content[1]]]]
         ELSE [pc |-> IF k + 1 < MaxSteps THEN "awaiting" ELSE "raised",
               messages |-> ms \o <<[role |-> "assistant", content |-> m.content],
                                     RetryPrompt>>,
               accumulator |-> acc,
               outcome |-> IF k + 1 < MaxSteps THEN StillRunning ELSE StepCap]
    ELSE LET done == run_all(acc, pending_of(m.tool_calls))
         IN  IF done.exc # None
             THEN [pc |-> "raised", messages |-> ms, accumulator |-> done.acc,
                   outcome |-> [kind |-> done.exc[1]]]
             ELSE [pc |-> IF k + 1 < MaxSteps THEN "awaiting" ELSE "raised",
                   messages |-> ms \o tool_messages(m.tool_calls, done.outs),
                   accumulator |-> done.acc,
                   outcome |-> IF k + 1 < MaxSteps THEN StillRunning ELSE StepCap]

\* the booking that the i-th call of m, a finalize_booking, makes
BookingOf(acc, m, i) ==
    LET args == Loads(m.tool_calls[i].function.arguments)
        at   == AccBefore(acc, m, i)
        hi   == IF args.hotel_index # None THEN args.hotel_index[1] ELSE 0
    IN  [flight_booking_id |-> "BK-FLT-XYZ123",
         hotel_booking_id  |-> IF at.hotels # <<>> THEN Some("BK-HTL-ABC987") ELSE None,
         status            |-> "PENDING_CONFIRMATION"]

\* C12: auto_book has no effect. It never changes, and every iteration takes
\* the conversation, the accumulator and the outcome to what the state before
\* it and the model's response alone determine, so two runs fed the same
\* responses go through the same states whatever auto_book is; a
\* finalize_booking that finds its flight is executed, recorded in
\* accumulator['booking'] and answered by a tool message, also when
\* auto_book is False.
C12_AutoBookIgnored ==
    [][ /\ auto_book' = auto_book
        /\ step' = step + 1 =>
              [pc |-> pc', messages |-> messages', accumulator |-> accumulator',
               outcome |-> outcome'] = IterationResult(accumulator, messages, step, msg')
        /\ (step' = step + 1 /\ LastTools(msg')) =>
              \A i \in Finalizes(msg') :
                  (/\ ~NothingToBook(accumulator, msg', i)
                   /\ PlainIndices(msg', i)
                   /\ \A j \in Finalizes(msg') : j <= i) =>
                      /\ accumulator'.booking = Some(BookingOf(accumulator, msg', i))
                      /\ ~ToolFailed' =>
                            messages'[Len(messages) + i] =
                                [role         |-> "tool",
                                 tool_call_id |-> msg'.tool_calls[i].id,
                                 name         |-> "finalize_booking",
                                 content      |-> Dumps(BookingOf(accumulator, msg', i))]
      ]_vars

\* a run with auto_book False in which a finalize_booking was executed,
\* recorded and answered
C12_Witness ==
    /\ auto_book = FALSE
    /\ pc = "awaiting"
    /\ accumulator.booking # None
    /\ messages[Len(messages)].role = "tool"
    /\ messages[Len(messages)].name = "finalize_booking"

====
